---- MODULE Spec2Model ----
(***************************************************************************)
(* Model of unseen/general_utils.py: the empirical context helper          *)
(* event_in_context, the GEV fitter fit_gev and the bootstrap return curve *)
(* gev_return_curve.                                                       *)
(*                                                                         *)
(* Numbers.  Counts are naturals.  A quotient is kept exactly, as a        *)
(* reduced fraction, or as one of the IEEE specials numpy produces (inf,   *)
(* nan); floating-point rounding is not modelled.  Curve values and return *)
(* periods of the GEV are extended numbers: an integer, -inf, +inf or nan. *)
(* Quantiles at 0.025 and 0.975 are kept exactly, scaled by QScale = 40.   *)
(*                                                                         *)
(* Library calls.  scipy's genextreme.fit is an optimiser whose result the *)
(* model does not compute: GevFit returns any parameter triple of ParamSet *)
(* or fails.  genextreme.isf, .sf and .rvs are deterministic stand-ins     *)
(* that keep what the program depends on: the support of the distribution  *)
(* (isf(1) is -inf when the support has no lower end, sf is 0 above the    *)
(* upper end), and that each depends on the parameters it is given.        *)
(***************************************************************************)
EXTENDS Integers, Sequences, FiniteSets, TLC

VARIABLES
    pc,                 \* position of the running call
    error,              \* the exception that ended the call, "none" otherwise
    bound,              \* names of the locals the call has assigned so far
    data,               \* argument data of the running call
    \* event_in_context
    threshold, direction,
    n_population, n_events, percentile, return_period,
    \* fit_gev
    user_estimates, generate_estimates,
    fit_calls,          \* the calls of gev.fit made, in order, with their results
    fit_result,         \* (shape, loc, scale) returned
    \* gev_return_curve
    event_value, bootstrap_method, n_bootstraps,
    params,             \* shape, loc, scale of the fit to data (line 198)
    curve_return_periods, curve_values, event_return_period,
    boot_values, boot_event_return_periods,
    i,                  \* iterations of the bootstrap loop completed
    boot_data,
    boot_params,        \* boot_shape, boot_loc, boot_scale
    curve_values_lower_ci, curve_values_upper_ci,
    event_return_period_lower_ci, event_return_period_upper_ci

ctx_vars == <<threshold, direction, n_population, n_events, percentile,
              return_period>>
fit_vars == <<user_estimates, generate_estimates, fit_calls, fit_result>>
curve_in == <<event_value, bootstrap_method, n_bootstraps>>
curve_fit == <<params, curve_return_periods, curve_values, event_return_period>>
curve_boot == <<boot_values, boot_event_return_periods, i, boot_data,
                boot_params>>
curve_out == <<curve_values_lower_ci, curve_values_upper_ci,
               event_return_period_lower_ci, event_return_period_upper_ci>>
vars == <<pc, error, bound, data, ctx_vars, fit_vars, curve_in, curve_fit,
          curve_boot, curve_out>>

----------------------------------------------------------------------------
\* Bounds of the model.
MaxLen == 2          \* longest sample
MaxObs == 2          \* observations are 1..MaxObs
MaxBoot == 2         \* largest n_bootstraps
GridSize == 2        \* points of the return-period grid (10000 in the code)

Obs == 1..MaxObs
SeqsUpTo(S, n) == UNION {[1..k -> S] : k \in 0..n}
Samples == SeqsUpTo(Obs, MaxLen)
Thresholds == 0..(MaxObs + 1)
Directions == {"above", "below", "sideways"}
Methods == {"parametric", "non-parametric", "jackknife"}

Max(a, b) == IF a >= b THEN a ELSE b
Min(a, b) == IF a <= b THEN a ELSE b

RECURSIVE Gcd(_, _)
Gcd(a, b) == IF b = 0 THEN a ELSE Gcd(b, a % b)

----------------------------------------------------------------------------
\* Quotients as numpy computes them (float64, default error state: a division
\* by zero warns and yields inf or nan).
Frac(n, d) == [kind |-> "fin", num |-> n \div Gcd(n, d), den |-> d \div Gcd(n, d)]
FInf == [kind |-> "inf", num |-> 1, den |-> 0]
FNaN == [kind |-> "nan", num |-> 0, den |-> 0]
FNone == [kind |-> "none", num |-> 0, den |-> 0]

\* A zero divisor answered with 0 (a faulty variant of TrueDivide).
TrueDivideZeroGuard(a, b) == IF b # 0 THEN Frac(a, b) ELSE Frac(0, 1)

\* a / b for naturals a, b, one of them a numpy scalar.
TrueDivide(a, b) ==
    IF b # 0 THEN Frac(a, b)
    ELSE IF a # 0 THEN FInf
    ELSE FNaN

\* x * 100 for a quotient x.
Times100(x) == IF x.kind = "fin" THEN Frac(x.num * 100, x.den) ELSE x

\* np.sum(data >= threshold) (a faulty variant of SumAbove).
SumAtLeast(d, t) == Cardinality({k \in DOMAIN d : d[k] >= t})

\* np.sum(data < threshold), np.sum(data > threshold)
SumBelow(d, t) == Cardinality({k \in DOMAIN d : d[k] < t})
SumAbove(d, t) == Cardinality({k \in DOMAIN d : d[k] > t})

----------------------------------------------------------------------------
\* The percentile taken from the comparison of the direction (a faulty variant of
\* event_in_context).
event_in_context_pct_by_direction(d, t, dir) ==
    LET n_pop == Len(d)
        n_ev == IF dir = "below" THEN SumBelow(d, t) ELSE SumAbove(d, t)
    IN  IF dir \notin {"below", "above"}
        THEN [error |-> "ValueError", bound |-> {"n_population"},
              n_population |-> n_pop, n_events |-> 0,
              percentile |-> FNone, return_period |-> FNone]
        ELSE [error |-> "none",
              bound |-> {"n_population", "n_events", "percentile",
                         "return_period"},
              n_population |-> n_pop, n_events |-> n_ev,
              percentile |-> Times100(TrueDivide(n_ev, n_pop)),
              return_period |-> TrueDivide(n_pop, n_ev)]

\* Any direction but "below" read as "above" (a faulty variant of event_in_context).
event_in_context_no_else(d, t, dir) ==
    LET n_pop == Len(d)
        n_ev == IF dir = "below" THEN SumBelow(d, t) ELSE SumAbove(d, t)
    IN  [error |-> "none",
         bound |-> {"n_population", "n_events", "percentile", "return_period"},
         n_population |-> n_pop, n_events |-> n_ev,
         percentile |-> Times100(TrueDivide(SumBelow(d, t), n_pop)),
         return_period |-> TrueDivide(n_pop, n_ev)]

\* event_in_context(data, threshold, direction): the locals at the point the
\* call ends, by return (error = "none") or by the raise of line 134.
event_in_context(d, t, dir) ==
    LET n_pop == Len(d)
        n_ev == IF dir = "below" THEN SumBelow(d, t) ELSE SumAbove(d, t)
        pct == Times100(TrueDivide(SumBelow(d, t), n_pop))
        rp == TrueDivide(n_pop, n_ev)
    IN  IF dir \notin {"below", "above"}
        THEN [error |-> "ValueError", bound |-> {"n_population"},
              n_population |-> n_pop, n_events |-> 0,
              percentile |-> FNone, return_period |-> FNone]
        ELSE [error |-> "none",
              bound |-> {"n_population", "n_events", "percentile",
                         "return_period"},
              n_population |-> n_pop, n_events |-> n_ev,
              percentile |-> pct, return_period |-> rp]

----------------------------------------------------------------------------
\* Extended numbers: float64 values of the GEV computations.
X(v) == [kind |-> "fin", val |-> v]
XNegInf == [kind |-> "ninf", val |-> 0]
XPosInf == [kind |-> "pinf", val |-> 0]
XNaN == [kind |-> "nan", val |-> 0]
XNone == [kind |-> "none", val |-> 0]

\* np.isfinite
IsFinite(x) == x.kind = "fin"

\* (shape, loc, scale) triples gev.fit may return, scipy's sign of the shape:
\* shape > 0 has support up to loc + scale/shape, shape < 0 from there on,
\* shape = 0 (Gumbel) all reals.
ParamSet ==
    { [ok |-> TRUE, shape |-> 0, loc |-> 1, scale |-> 1],
      [ok |-> TRUE, shape |-> 1, loc |-> 2, scale |-> 2],
      [ok |-> TRUE, shape |-> -1, loc |-> 3, scale |-> 1] }
\* A fit that raised; also the value of a parameter triple not yet assigned.
Failed == [ok |-> FALSE, shape |-> 0, loc |-> 0, scale |-> 0]
NoParams == Failed

\* gev.fit(sample) and gev.fit(sample, loc=seed[1], scale=seed[2]): the
\* optimiser returns some triple or raises.
GevFit(sample, seed) == ParamSet \cup {Failed}

\* data[::2]
EverySecond(d) == [k \in 1..((Len(d) + 1) \div 2) |-> d[2 * k - 1]]

FitCall(sample, seed, o) == [sample |-> sample, seed |-> seed, out |-> o]

\* Lines 166-167: the pilot fit of every second element, then the fit of the
\* whole sample started from the pilot's loc and scale.
PilotSeeded(d) ==
    UNION { IF o1 = Failed
            THEN { [calls |-> <<FitCall(EverySecond(d), <<>>, o1)>>,
                    out |-> Failed] }
            ELSE { [calls |-> <<FitCall(EverySecond(d), <<>>, o1),
                                FitCall(d, <<o1.loc, o1.scale>>, o2)>>,
                    out |-> o2] : o2 \in GevFit(d, <<o1.loc, o1.scale>>) } :
            o1 \in GevFit(EverySecond(d), <<>>) }

\* Lines 164 and 169: one fit of the whole sample.
OneFit(d, seed) ==
    { [calls |-> <<FitCall(d, seed, o)>>, out |-> o] : o \in GevFit(d, seed) }

\* The branch of lines 165-167 taken for every caller (a faulty variant of fit_gev).
fit_gev_pilot_first(d, ue, ge) ==
    IF ge
    THEN PilotSeeded(d)
    ELSE IF ue # <<>>
    THEN OneFit(d, <<ue[1], ue[2]>>)
    ELSE OneFit(d, <<>>)

\* fit_gev(data, user_estimates, generate_estimates): every way the call can
\* go, as the gev.fit calls made and the triple returned (out = Failed: the
\* exception of the failing gev.fit call leaves fit_gev).
fit_gev(d, ue, ge) ==
    IF ue # <<>>
    THEN OneFit(d, <<ue[1], ue[2]>>)
    ELSE IF ge
    THEN PilotSeeded(d)
    ELSE OneFit(d, <<>>)

----------------------------------------------------------------------------
\* np.logspace(0, 4, num=...): a logarithmic grid of return periods from 1.
RECURSIVE Pow10(_)
Pow10(k) == IF k = 0 THEN 1 ELSE 10 * Pow10(k - 1)
Logspace(num) == [j \in 1..num |-> Pow10(j - 1)]

UpperEnd(p) == p.loc + p.scale \div p.shape    \* shape > 0
LowerEnd(p) == p.loc + p.scale \div p.shape    \* shape < 0

\* gev.isf(1 / rps, shape, loc, scale): the value exceeded with probability
\* 1/rp.  Probability 1 (rp = 1) gives the lower end of the support.
Isf(rps, p) ==
    [j \in 1..Len(rps) |->
        IF rps[j] = 1
        THEN (IF p.shape >= 0 THEN XNegInf ELSE X(LowerEnd(p)))
        ELSE IF p.shape > 0
        THEN X(Min(p.loc + p.scale * (j - 1), UpperEnd(p)))
        ELSE X(p.loc + p.scale * (j - 1))]

\* gev.sf(event_value, shape, loc=loc, scale=scale): 0 at and above the upper
\* end of the support, 1 at and below the lower end.
Sf(ev, p) ==
    IF p.shape > 0 /\ ev >= UpperEnd(p) THEN Frac(0, 1)
    ELSE IF p.shape < 0 /\ ev <= LowerEnd(p) THEN Frac(1, 1)
    ELSE Frac(1, 1 + Max(0, ev - p.loc))

\* 1. / probability for a numpy float: 1/0 is inf.
Reciprocal(x) == IF x.num = 0 THEN XPosInf ELSE X(x.den \div x.num)

Range(d) == {d[k] : k \in DOMAIN d}

\* gev.rvs(shape, loc=loc, scale=scale, size=n): n points of the support.
Rvs(p, n) == [1..n -> {p.loc, p.loc + p.scale}]
\* np.random.choice(data, size=data.shape, replace=True)
Choice(d) == [1..Len(d) -> Range(d)]

\* Lines 211-214: the resamples the method can draw; none for a method that
\* is neither (boot_data stays unassigned).
Resample(method, d, p) ==
    IF method = "parametric" THEN Rvs(p, Len(d))
    ELSE IF method = "non-parametric" THEN Choice(d)
    ELSE {}

\* np.vstack((boot_values, boot_value)): a 1-D array counts as one row.
VStack(bv, row) == [ndim |-> 2, rows |-> Append(bv.rows, row)]

----------------------------------------------------------------------------
\* np.quantile(a, q) for q = QLower/QScale = 0.025 and QUpper/QScale = 0.975,
\* linear interpolation between the closest ranks.
QScale == 40
QLower == 1
QUpper == 39

\* Order of the sort inside np.quantile on numbers that are not nan.
XLeq(x, y) ==
    \/ x.kind = "ninf"
    \/ y.kind = "pinf"
    \/ (x.kind = "fin" /\ y.kind = "fin" /\ x.val <= y.val)

RECURSIVE Insert(_, _)
Insert(x, sorted) ==
    IF sorted = <<>> THEN <<x>>
    ELSE IF XLeq(x, Head(sorted)) THEN <<x>> \o sorted
    ELSE <<Head(sorted)>> \o Insert(x, Tail(sorted))

\* The array left in the order it was collected in (a faulty variant of Sort).
Unsorted(a) == a

RECURSIVE Sort(_)
Sort(a) == IF a = <<>> THEN <<>> ELSE Insert(Head(a), Sort(Tail(a)))

\* a + (b - a) * r / QScale, times QScale, for a <= b.  With an infinite a
\* or b the float arithmetic of the interpolation meets inf - inf or inf * 0
\* and the numpy build decides: nan ("ieee"), or the limit value ("limit").
Lerp(a, b, r, build) ==
    IF IsFinite(a) /\ IsFinite(b) THEN X(QScale * a.val + (b.val - a.val) * r)
    ELSE IF build = "ieee" THEN XNaN
    ELSE IF a = b \/ r = 0 THEN a
    ELSE IF a.kind = "ninf" /\ b.kind = "pinf" THEN XNaN
    ELSE IF a.kind = "ninf" THEN a
    ELSE b

\* np.quantile of a non-empty 1-D array, times QScale; nan if a holds a nan.
Quantile(a, q, build) ==
    IF \E k \in DOMAIN a : a[k].kind = "nan" THEN XNaN
    ELSE LET sorted == Sort(a)
             virtual == q * (Len(a) - 1)          \* times QScale
             lo == virtual \div QScale + 1
             hi == Min(lo + 1, Len(a))
         IN  Lerp(sorted[lo], sorted[hi], virtual % QScale, build)

\* The values along axis 0 at grid point j of a 2-D stack.
Column(bv, j) == [r \in 1..Len(bv.rows) |-> bv.rows[r][j]]

\* The lower and upper quantile exchanged (a faulty variant of QuantileAxis0).
QuantileAxis0Swapped(bv, q, build) ==
    IF bv.ndim = 1
    THEN [ndim |-> 0, val |-> Quantile(bv.rows[1], QScale - q, build)]
    ELSE [ndim |-> 1,
          val |-> [j \in 1..Len(bv.rows[1]) |->
                     Quantile(Column(bv, j), QScale - q, build)]]

\* np.quantile(boot_values, q, axis=0): one value per grid point of a 2-D
\* stack; of a 1-D array (n_bootstraps = 0, boot_values is curve_values) the
\* one quantile over its elements, a scalar.
QuantileAxis0(bv, q, build) ==
    IF bv.ndim = 1
    THEN [ndim |-> 0, val |-> Quantile(bv.rows[1], q, build)]
    ELSE [ndim |-> 1,
          val |-> [j \in 1..Len(bv.rows[1]) |->
                     Quantile(Column(bv, j), q, build)]]

\* Nothing is dropped (a faulty variant of FiniteOnly).
FiniteOnlyKeepsAll(a) == a

\* boot_event_return_periods[np.isfinite(boot_event_return_periods)]
FiniteOnly(a) == SelectSeq(a, IsFinite)

NoCI == [ndim |-> 0, val |-> XNone]

----------------------------------------------------------------------------
\* State before any call.
Init ==
    /\ pc = "idle"
    /\ error = "none"
    /\ bound = {}
    /\ data = <<>>
    /\ threshold = 0 /\ direction = "above"
    /\ n_population = 0 /\ n_events = 0
    /\ percentile = FNone /\ return_period = FNone
    /\ user_estimates = <<>> /\ generate_estimates = FALSE
    /\ fit_calls = <<>> /\ fit_result = NoParams
    /\ event_value = 0 /\ bootstrap_method = "non-parametric"
    /\ n_bootstraps = 0
    /\ params = NoParams
    /\ curve_return_periods = <<>> /\ curve_values = <<>>
    /\ event_return_period = XNone
    /\ boot_values = [ndim |-> 0, rows |-> <<>>]
    /\ boot_event_return_periods = <<>>
    /\ i = 0
    /\ boot_data = <<>>
    /\ boot_params = NoParams
    /\ curve_values_lower_ci = NoCI /\ curve_values_upper_ci = NoCI
    /\ event_return_period_lower_ci = XNone
    /\ event_return_period_upper_ci = XNone

\* A caller invokes event_in_context.
CallEventInContext ==
    /\ pc = "idle"
    /\ \E d \in Samples, t \in Thresholds, dir \in Directions :
          /\ data' = d
          /\ threshold' = t
          /\ direction' = dir
    /\ pc' = "event_in_context"
    /\ UNCHANGED <<error, bound, n_population, n_events, percentile,
                   return_period, fit_vars, curve_in, curve_fit, curve_boot,
                   curve_out>>

\* Lines 128-138.
RunEventInContext ==
    /\ pc = "event_in_context"
    /\ LET r == event_in_context(data, threshold, direction)
       IN  /\ error' = r.error
           /\ bound' = r.bound
           /\ n_population' = r.n_population
           /\ n_events' = r.n_events
           /\ percentile' = r.percentile
           /\ return_period' = r.return_period
           /\ pc' = IF r.error = "none" THEN "ctx_returned" ELSE "ctx_raised"
    /\ UNCHANGED <<data, threshold, direction, fit_vars, curve_in, curve_fit,
                   curve_boot, curve_out>>

----------------------------------------------------------------------------
\* A caller invokes fit_gev.
CallFitGev ==
    /\ pc = "idle"
    /\ \E d \in Samples, ue \in {<<>>} \cup (Obs \X Obs), ge \in BOOLEAN :
          /\ data' = d
          /\ user_estimates' = ue
          /\ generate_estimates' = ge
    /\ pc' = "fit_gev"
    /\ UNCHANGED <<error, bound, ctx_vars, fit_calls, fit_result, curve_in,
                   curve_fit, curve_boot, curve_out>>

\* Lines 162-171.
RunFitGev ==
    /\ pc = "fit_gev"
    /\ \E r \in fit_gev(data, user_estimates, generate_estimates) :
          /\ fit_calls' = r.calls
          /\ fit_result' = r.out
          /\ error' = IF r.out.ok THEN "none" ELSE "FitError"
          /\ bound' = IF r.out.ok THEN {"shape", "loc", "scale"} ELSE {}
          /\ pc' = IF r.out.ok THEN "fit_returned" ELSE "fit_raised"
    /\ UNCHANGED <<data, ctx_vars, user_estimates, generate_estimates,
                   curve_in, curve_fit, curve_boot, curve_out>>

----------------------------------------------------------------------------
EventValues == {3, 4}
\* Samples given to gev_return_curve: at least one observation.
CurveSamples == SeqsUpTo({1, 2}, MaxLen) \ {<<>>}

\* The triples fit_gev(d, generate_estimates=True) can return, Failed for a
\* call that raises.
FitOutcomes(d) == {r.out : r \in fit_gev(d, <<>>, TRUE)}

\* A caller invokes gev_return_curve.
CallGevReturnCurve ==
    /\ pc = "idle"
    /\ \E d \in CurveSamples, ev \in EventValues, m \in Methods,
          n \in 0..MaxBoot :
          /\ data' = d
          /\ event_value' = ev
          /\ bootstrap_method' = m
          /\ n_bootstraps' = n
    /\ pc' = "curve_fit"
    /\ UNCHANGED <<error, bound, ctx_vars, fit_vars, curve_fit, curve_boot,
                   curve_out>>

\* Line 198.
CurveFit ==
    /\ pc = "curve_fit"
    /\ \E out \in FitOutcomes(data) :
          IF out.ok
          THEN /\ params' = out
               /\ bound' = {"shape", "loc", "scale"}
               /\ pc' = "curve_grid"
               /\ error' = error
          ELSE /\ params' = params
               /\ bound' = bound
               /\ pc' = "curve_raised"
               /\ error' = "FitError"
    /\ UNCHANGED <<data, ctx_vars, fit_vars, curve_in, curve_return_periods,
                   curve_values, event_return_period, curve_boot, curve_out>>

\* Lines 200-209.
CurveGrid ==
    /\ pc = "curve_grid"
    /\ curve_return_periods' = Logspace(GridSize)
    /\ curve_values' = Isf(curve_return_periods', params)
    /\ event_return_period' = Reciprocal(Sf(event_value, params))
    /\ boot_values' = [ndim |-> 1, rows |-> <<curve_values'>>]
    /\ boot_event_return_periods' = <<>>
    /\ i' = 0
    /\ bound' = bound \cup {"curve_return_periods", "curve_values",
                            "event_return_period", "boot_values",
                            "boot_event_return_periods"}
    /\ pc' = "curve_loop"
    /\ UNCHANGED <<error, data, ctx_vars, fit_vars, curve_in, params,
                   boot_data, boot_params, curve_out>>

\* The locals of gev_return_curve the loop body reads or writes.
Locals ==
    [params |-> params, curve_return_periods |-> curve_return_periods,
     curve_values |-> curve_values, event_return_period |-> event_return_period,
     event_value |-> event_value, boot_values |-> boot_values,
     boot_event_return_periods |-> boot_event_return_periods, i |-> i,
     boot_data |-> boot_data, boot_params |-> boot_params]

\* The refit assigned to shape, loc, scale (a faulty variant of LoopBody).
LoopBodyReusesNames(s, bd, out) ==
    [s EXCEPT !.boot_data = bd,
              !.params = out,
              !.boot_params = out,
              !.boot_values = VStack(@, Isf(s.curve_return_periods, out)),
              !.boot_event_return_periods =
                  Append(@, Reciprocal(Sf(s.event_value, out))),
              !.i = @ + 1]

\* The refit's curve replaces the previous replicate's (a faulty variant of LoopBody).
LoopBodyKeepsLast(s, bd, out) ==
    [s EXCEPT !.boot_data = bd,
              !.boot_params = out,
              !.boot_values =
                  [ndim |-> 2,
                   rows |-> <<s.curve_values, Isf(s.curve_return_periods, out)>>],
              !.boot_event_return_periods =
                  Append(@, Reciprocal(Sf(s.event_value, out))),
              !.i = @ + 1]

\* Lines 215-222 for the resample bd and its refit out.
LoopBody(s, bd, out) ==
    [s EXCEPT !.boot_data = bd,
              !.boot_params = out,
              !.boot_values = VStack(@, Isf(s.curve_return_periods, out)),
              !.boot_event_return_periods =
                  Append(@, Reciprocal(Sf(s.event_value, out))),
              !.i = @ + 1]

SetLocals(s) ==
    /\ params' = s.params
    /\ curve_return_periods' = s.curve_return_periods
    /\ curve_values' = s.curve_values
    /\ event_return_period' = s.event_return_period
    /\ boot_values' = s.boot_values
    /\ boot_event_return_periods' = s.boot_event_return_periods
    /\ i' = s.i
    /\ boot_data' = s.boot_data
    /\ boot_params' = s.boot_params

\* One iteration of the loop of lines 210-222 that runs to its end.
BootstrapIteration ==
    /\ pc = "curve_loop"
    /\ i < n_bootstraps
    /\ \E bd \in Resample(bootstrap_method, data, params) :
       \E out \in FitOutcomes(bd) :
          /\ out.ok
          /\ SetLocals(LoopBody(Locals, bd, out))
    /\ bound' = bound \cup {"boot_data", "boot_shape", "boot_loc",
                            "boot_scale", "boot_value",
                            "boot_event_probability",
                            "boot_event_return_period"}
    /\ UNCHANGED <<pc, error, data, ctx_vars, fit_vars, curve_in, curve_out>>

\* An iteration ended by the exception of the refit of line 215.
BootstrapFitRaises ==
    /\ pc = "curve_loop"
    /\ i < n_bootstraps
    /\ \E bd \in Resample(bootstrap_method, data, params) :
       \E out \in FitOutcomes(bd) :
          /\ ~out.ok
          /\ boot_data' = bd
    /\ bound' = bound \cup {"boot_data"}
    /\ error' = "FitError"
    /\ pc' = "curve_raised"
    /\ UNCHANGED <<data, ctx_vars, fit_vars, curve_in, curve_fit, boot_values,
                   boot_event_return_periods, i, boot_params, curve_out>>

\* Line 215 reads boot_data, which neither branch of lines 211-214 assigned
\* in the first iteration.
BootstrapUnboundData ==
    /\ pc = "curve_loop"
    /\ i < n_bootstraps
    /\ bootstrap_method \notin {"parametric", "non-parametric"}
    /\ "boot_data" \notin bound
    /\ error' = "UnboundLocalError"
    /\ pc' = "curve_raised"
    /\ UNCHANGED <<bound, data, ctx_vars, fit_vars, curve_in, curve_fit,
                   curve_boot, curve_out>>

\* Lines 224-234, after the loop has run n_bootstraps times.  np.quantile of
\* the empty array of line 230 raises or yields nan, by the numpy build.
Aggregate ==
    /\ pc = "curve_loop"
    /\ i = n_bootstraps
    /\ \E build \in {"ieee", "limit"}, empty \in {"raise", "nan"} :
          LET finite == FiniteOnly(boot_event_return_periods)
          IN  /\ curve_values_lower_ci' = QuantileAxis0(boot_values, QLower, build)
              /\ curve_values_upper_ci' = QuantileAxis0(boot_values, QUpper, build)
              /\ boot_event_return_periods' = finite
              /\ IF finite = <<>> /\ empty = "raise"
                 THEN /\ error' = "IndexError"
                      /\ pc' = "curve_raised"
                      /\ UNCHANGED <<event_return_period_lower_ci,
                                     event_return_period_upper_ci>>
                      /\ bound' = bound \cup {"curve_values_lower_ci",
                                              "curve_values_upper_ci",
                                              "curve_data"}
                 ELSE /\ error' = error
                      /\ pc' = "curve_returned"
                      /\ event_return_period_lower_ci' =
                            IF finite = <<>> THEN XNaN
                            ELSE Quantile(finite, QLower, build)
                      /\ event_return_period_upper_ci' =
                            IF finite = <<>> THEN XNaN
                            ELSE Quantile(finite, QUpper, build)
                      /\ bound' = bound \cup {"curve_values_lower_ci",
                                              "curve_values_upper_ci",
                                              "curve_data",
                                              "event_return_period_lower_ci",
                                              "event_return_period_upper_ci",
                                              "event_data"}
    /\ UNCHANGED <<data, ctx_vars, fit_vars, curve_in, curve_fit, boot_values,
                   i, boot_data, boot_params>>

----------------------------------------------------------------------------
Next ==
    \/ CallEventInContext
    \/ RunEventInContext
    \/ CallFitGev
    \/ RunFitGev
    \/ CallGevReturnCurve
    \/ CurveFit
    \/ CurveGrid
    \/ BootstrapIteration
    \/ BootstrapFitRaises
    \/ BootstrapUnboundData
    \/ Aggregate

Spec == Init /\ [][Next]_vars

----------------------------------------------------------------------------
\* Claims about event_in_context.

CtxEnded == pc \in {"ctx_returned", "ctx_raised"}
ValidDirection == direction \in {"above", "below"}

\* C1: for non-empty data and a valid direction event_in_context returns,
\* with n_population the length of data and n_events the number of elements
\* strictly greater than threshold ('above') or strictly less than threshold
\* ('below'); an element equal to the threshold is counted in neither.
C1_StrictCounts ==
    (CtxEnded /\ ValidDirection /\ data # <<>>) =>
        /\ pc = "ctx_returned"
        /\ n_population = Len(data)
        /\ direction = "above" =>
              n_events = Cardinality({k \in 1..Len(data) : data[k] > threshold})
        /\ direction = "below" =>
              n_events = Cardinality({k \in 1..Len(data) : data[k] < threshold})
        /\ n_events + Cardinality({k \in 1..Len(data) : data[k] = threshold})
              <= Len(data)

C1_Witness ==
    /\ pc = "ctx_returned"
    /\ direction = "above"
    /\ \E k \in 1..Len(data) : data[k] = threshold
    /\ n_events > 0

\* C2: for non-empty data and both valid directions the percentile is
\* 100 * (number of elements strictly less than threshold) / n_population,
\* the same for 'above' and for 'below'.
C2_PercentileFromBelow ==
    (pc = "ctx_returned" /\ data # <<>>) =>
        LET below == Cardinality({k \in 1..Len(data) : data[k] < threshold})
        IN  /\ percentile.kind = "fin"
            /\ percentile.num * n_population = 100 * below * percentile.den
            /\ \A dir \in {"above", "below"} :
                  event_in_context(data, threshold, dir).percentile = percentile

C2_Witness ==
    /\ pc = "ctx_returned"
    /\ direction = "above"
    /\ percentile.kind = "fin" /\ percentile.num > 0
    /\ n_events # Cardinality({k \in 1..Len(data) : data[k] < threshold})

\* C4: for every data and threshold, a direction that is neither 'above' nor
\* 'below' ends event_in_context in a ValueError with no result; no event
\* count, percentile or return period has been computed.
C4_InvalidDirectionRaises ==
    (CtxEnded /\ ~ValidDirection) =>
        /\ pc = "ctx_raised"
        /\ error = "ValueError"
        /\ bound \cap {"n_events", "percentile", "return_period"} = {}

C4_Witness ==
    /\ pc = "ctx_raised"
    /\ error = "ValueError"
    /\ data # <<>>
    /\ \E k \in 1..Len(data) : data[k] > threshold

\* C5 as stated: return_period = n_population / n_events when n_events > 0,
\* and with n_events = 0 the call ends in an error or an infinite return
\* period.
C5_ZeroEventsInfinite ==
    pc = "ctx_returned" =>
        /\ n_events > 0 =>
              /\ return_period.kind = "fin"
              /\ return_period.num * n_events = n_population * return_period.den
        /\ n_events = 0 => return_period.kind = "inf"

\* C5 amended: return_period = n_population / n_events when n_events > 0;
\* with n_events = 0 the return period is infinite for non-empty data and
\* not-a-number for empty data (0 / 0), never a finite value.
C5_ZeroEventsInfiniteOrNaN ==
    pc = "ctx_returned" =>
        /\ n_events > 0 =>
              /\ return_period.kind = "fin"
              /\ return_period.num * n_events = n_population * return_period.den
        /\ (n_events = 0 /\ n_population > 0) => return_period.kind = "inf"
        /\ (n_events = 0 /\ n_population = 0) => return_period.kind = "nan"

C5_Witness ==
    /\ pc = "ctx_returned"
    /\ n_events = 0
    /\ n_population > 0
    /\ return_period.kind = "inf"

----------------------------------------------------------------------------
\* Claims about fit_gev.

\* C10: fit_gev takes exactly one strategy and makes a single attempt.  With
\* user_estimates given: one fit of the whole sample started from the user's
\* (loc, scale), whatever generate_estimates is.  Otherwise with
\* generate_estimates: a fit of the elements at indices 0, 2, 4, ... and then
\* one fit of the whole sample started from the pilot's (loc, scale) and
\* nothing else of the pilot.  Otherwise one unseeded fit of the whole
\* sample.  The failure of a fit ends the call with that failure; no fit
\* follows it.
C10_OneStrategy ==
    pc \in {"fit_returned", "fit_raised"} =>
        LET n == Len(fit_calls)
            last == fit_calls[n]
            whole == [k \in 1..Len(data) |-> data[k]]
            even == [k \in 1..((Len(data) + 1) \div 2) |-> data[2 * k - 1]]
        IN  /\ n >= 1
            /\ fit_result = last.out
            /\ (pc = "fit_raised") = (last.out = Failed)
            /\ \A k \in 1..(n - 1) : fit_calls[k].out # Failed
            /\ user_estimates # <<>> =>
                  /\ n = 1
                  /\ last.sample = whole
                  /\ last.seed = <<user_estimates[1], user_estimates[2]>>
            /\ (user_estimates = <<>> /\ generate_estimates) =>
                  /\ fit_calls[1].sample = even
                  /\ fit_calls[1].seed = <<>>
                  /\ n = (IF fit_calls[1].out = Failed THEN 1 ELSE 2)
                  /\ n = 2 =>
                        /\ last.sample = whole
                        /\ last.seed = <<fit_calls[1].out.loc,
                                         fit_calls[1].out.scale>>
            /\ (user_estimates = <<>> /\ ~generate_estimates) =>
                  /\ n = 1
                  /\ last.sample = whole
                  /\ last.seed = <<>>

C10_Witness ==
    /\ pc = "fit_returned"
    /\ user_estimates # <<>>
    /\ generate_estimates
    /\ Len(data) = 2
    /\ Len(fit_calls) = 1

----------------------------------------------------------------------------
\* Claims about gev_return_curve.

InCurve == pc \in {"curve_fit", "curve_grid", "curve_loop", "curve_returned",
                   "curve_raised"}
ValidMethod == bootstrap_method \in {"parametric", "non-parametric"}

\* C3: a bootstrap_method that is neither 'parametric' nor 'non-parametric'
\* makes gev_return_curve fail at once, for every n_bootstraps >= 0: the call
\* does not return, and no fit, curve or replicate is computed before the
\* failure.
C3_InvalidMethodFailsAtOnce ==
    (InCurve /\ ~ValidMethod) =>
        /\ pc \in {"curve_fit", "curve_raised"}
        /\ bound = {}

\* Comparison of float64 numbers: false with a nan on either side.
XLessEq(x, y) ==
    /\ x.kind # "nan" /\ y.kind # "nan"
    /\ x.kind # "none" /\ y.kind # "none"
    /\ XLeq(x, y)

Scaled(x) == IF IsFinite(x) THEN X(QScale * x.val) ELSE x

\* The bound at grid point j: a scalar bound is the same at every point.
At(ci, j) == IF ci.ndim = 0 THEN ci.val ELSE ci.val[j]

\* The values the quantile at grid point j was taken over.
QuantileInput(j) ==
    IF boot_values.ndim = 1 THEN boot_values.rows[1]
    ELSE [r \in 1..Len(boot_values.rows) |-> boot_values.rows[r][j]]

BandsComputed == "curve_values_upper_ci" \in bound

\* C6 as stated: at every grid point i, for every n_bootstraps >= 0 and every
\* replicate curves, curve_lower[i] <= curve_values[i] <= curve_upper[i].
C6_CurveWithinBands ==
    BandsComputed =>
        \A j \in 1..Len(curve_values) :
            /\ XLessEq(At(curve_values_lower_ci, j), Scaled(curve_values[j]))
            /\ XLessEq(Scaled(curve_values[j]), At(curve_values_upper_ci, j))

\* C6 amended: at every grid point where the quantiles are taken over finite
\* values, for every n_bootstraps >= 0, curve_lower <= curve_upper and both
\* lie between the least and the greatest of those values (the column of the
\* stack of the original curve and the replicates; for n_bootstraps = 0 the
\* original curve itself, whose quantiles are two scalars).  The original
\* curve value need not lie between the bounds.
C6_BandsOrdered ==
    BandsComputed =>
        \A j \in 1..Len(curve_values) :
            LET in == QuantileInput(j)
                lower == At(curve_values_lower_ci, j)
                upper == At(curve_values_upper_ci, j)
            IN  (\A k \in 1..Len(in) : in[k].kind = "fin") =>
                    /\ lower.kind = "fin" /\ upper.kind = "fin"
                    /\ lower.val <= upper.val
                    /\ \E k \in 1..Len(in) : QScale * in[k].val <= lower.val
                    /\ \E k \in 1..Len(in) : upper.val <= QScale * in[k].val

\* A finite column of original and replicates whose lower bound lies above
\* the original curve value.
C6_Witness ==
    /\ pc = "curve_returned"
    /\ n_bootstraps >= 1
    /\ \E j \in 1..Len(curve_values) :
          /\ \A k \in 1..Len(QuantileInput(j)) : QuantileInput(j)[k].kind = "fin"
          /\ At(curve_values_lower_ci, j).val < At(curve_values_upper_ci, j).val
          /\ At(curve_values_lower_ci, j).val > QScale * curve_values[j].val

Count(a, x) == Cardinality({k \in 1..Len(a) : a[k] = x})

\* C7: the finite-value filter applies to the event return periods only.  The
\* event bounds are the 0.025 and 0.975 quantiles of exactly the finite
\* replicate event return periods (each non-finite one dropped, each finite
\* one kept), and the curve bands are taken over the rows of all
\* n_bootstraps replicates and the original, whatever their event return
\* periods are.
C7_FilterEventsOnly ==
    [][(pc = "curve_loop" /\ pc' \in {"curve_returned", "curve_raised"}
            /\ i = n_bootstraps) =>
        LET before == boot_event_return_periods
            after == boot_event_return_periods'
        IN  /\ \A k \in 1..Len(after) : after[k].kind = "fin"
            /\ \A k \in 1..Len(before) :
                  before[k].kind = "fin" =>
                      Count(after, before[k]) = Count(before, before[k])
            /\ Len(after) =
                  Cardinality({k \in 1..Len(before) : before[k].kind = "fin"})
            /\ (pc' = "curve_returned" /\ after # <<>>) =>
                  /\ event_return_period_lower_ci' = Quantile(after, QLower, "ieee")
                  /\ event_return_period_upper_ci' = Quantile(after, QUpper, "ieee")
            /\ (pc' = "curve_raised") => after = <<>>
            /\ boot_values' = boot_values
            /\ Len(boot_values.rows) = IF n_bootstraps = 0 THEN 1 ELSE Len(before) + 1
            /\ \E build \in {"ieee", "limit"} :
                  /\ curve_values_lower_ci' = QuantileAxis0(boot_values, QLower, build)
                  /\ curve_values_upper_ci' = QuantileAxis0(boot_values, QUpper, build)
       ]_vars

\* A replicate with an infinite event return period was dropped from the
\* event return periods and its row is in the stack.
C7_Witness ==
    /\ pc = "curve_returned"
    /\ 0 < Len(boot_event_return_periods)
    /\ Len(boot_event_return_periods) < n_bootstraps
    /\ Len(boot_values.rows) = n_bootstraps + 1
    /\ event_return_period_lower_ci.kind = "fin"

\* C8: after k iterations the stack has k + 1 rows and the event list k
\* entries; the quantiles are computed only once all n_bootstraps replicates
\* are in, when the stack has n_bootstraps + 1 rows and its first row is the
\* original curve; every row is on the one return-period grid.
C8_StackGrowsThenAggregates ==
    /\ pc = "curve_loop" =>
          /\ Len(boot_values.rows) = i + 1
          /\ Len(boot_event_return_periods) = i
          /\ i <= n_bootstraps
    /\ (InCurve /\ bound \cap {"curve_values_lower_ci", "curve_values_upper_ci",
                               "event_return_period_lower_ci"} # {}) =>
          /\ i = n_bootstraps
          /\ Len(boot_values.rows) = n_bootstraps + 1
    /\ (InCurve /\ "boot_values" \in bound) =>
          /\ boot_values.rows[1] = curve_values
          /\ \A r \in 1..Len(boot_values.rows) :
                Len(boot_values.rows[r]) = Len(curve_return_periods)

C8_Witness ==
    /\ pc = "curve_returned"
    /\ n_bootstraps >= 2
    /\ Len(boot_values.rows) = n_bootstraps + 1
    /\ boot_values.rows[2] # boot_values.rows[3]

\* C9: every replicate's resample has the size of the original sample and is
\* drawn from the original inputs: from the GEV of the original fit's
\* (shape, loc, scale) for 'parametric', from the observed data with
\* replacement for 'non-parametric'; and an iteration of the loop changes
\* none of the original sample, the original fit's parameters, the grid, the
\* original curve and the event point estimate.
C9_ReplicatesFromOriginal ==
    [][(pc = "curve_loop" /\ i < n_bootstraps) =>
        /\ data' = data
        /\ params' = params
        /\ curve_return_periods' = curve_return_periods
        /\ curve_values' = curve_values
        /\ event_return_period' = event_return_period
        /\ "boot_data" \in bound' =>
              /\ Len(boot_data') = Len(data)
              /\ bootstrap_method = "non-parametric" =>
                    \A k \in 1..Len(boot_data') :
                        \E m \in 1..Len(data) : boot_data'[k] = data[m]
              /\ bootstrap_method = "parametric" =>
                    \E p \in ParamSet :
                        /\ Isf(curve_return_periods, p) = boot_values.rows[1]
                        /\ boot_data' \in Rvs(p, Len(data))
       ]_vars

\* A second replicate drawn after a first one whose refit differs from the
\* original fit.
C9_Witness ==
    /\ pc = "curve_loop"
    /\ i >= 2
    /\ bootstrap_method = "parametric"
    /\ boot_values.rows[2] # boot_values.rows[1]
    /\ boot_params # params

----------------------------------------------------------------------------
\* The orders in which n replicate results can be collected.
Orders(n) ==
    {f \in [1..n -> 1..n] : \A a, b \in 1..n : f[a] = f[b] => a = b}

\* The stack with its replicate rows (all rows but the first) in the order f.
PermutedStack(bv, f) ==
    [ndim |-> bv.ndim,
     rows |-> [r \in 1..Len(bv.rows) |->
                 IF r = 1 THEN bv.rows[1] ELSE bv.rows[f[r - 1] + 1]]]

\* C11: the aggregation does not depend on the order in which the replicate
\* results were collected: for every permutation of the n_bootstraps
\* replicate results (curve row and event return period of each replicate),
\* the curve's lower and upper bands and the event's lower and upper bounds
\* are the ones the call computes.
C11_OrderIndependent ==
    [][(pc = "curve_loop" /\ pc' \in {"curve_returned", "curve_raised"}
            /\ i = n_bootstraps) =>
        \A f \in Orders(n_bootstraps) :
            LET stack == PermutedStack(boot_values, f)
                events == [k \in 1..Len(boot_event_return_periods) |->
                             boot_event_return_periods[f[k]]]
                finite == SelectSeq(events, IsFinite)
            IN  /\ \E build \in {"ieee", "limit"} :
                      /\ curve_values_lower_ci' =
                            QuantileAxis0(stack, QLower, build)
                      /\ curve_values_upper_ci' =
                            QuantileAxis0(stack, QUpper, build)
                /\ (pc' = "curve_raised") => finite = <<>>
                /\ (pc' = "curve_returned" /\ finite = <<>>) =>
                      /\ event_return_period_lower_ci' = XNaN
                      /\ event_return_period_upper_ci' = XNaN
                /\ (pc' = "curve_returned" /\ finite # <<>>) =>
                      /\ event_return_period_lower_ci' =
                            Quantile(finite, QLower, "ieee")
                      /\ event_return_period_upper_ci' =
                            Quantile(finite, QUpper, "ieee")
       ]_vars

\* Bands and event bounds computed from two replicates that differ in their
\* curve rows and whose finite event return periods differ.
C11_Witness ==
    /\ pc = "curve_returned"
    /\ n_bootstraps >= 2
    /\ boot_values.rows[2] # boot_values.rows[3]
    /\ \E j \in 1..Len(curve_values) :
          /\ boot_values.rows[2][j].kind = "fin"
          /\ boot_values.rows[3][j].kind = "fin"
          /\ boot_values.rows[2][j].val > boot_values.rows[3][j].val
    /\ Len(boot_event_return_periods) >= 2
    /\ boot_event_return_periods[1].val # boot_event_return_periods[2].val

====
